---- MODULE Spec2Model ----
(***************************************************************************)
(* Knight's travails: the 8x8 board graph of src/graph.js, its             *)
(* construction (vertices, knight-move edges) and the two searches         *)
(* knightMovesBFS / knightMovesDFS with #reconstructPath.                  *)
(*                                                                         *)
(* A vertex reference is a record [obj, row, column].  obj = 0 is the      *)
(* GraphVertex the board owns at (row, column); obj > 0 is an object made  *)
(* by a caller that merely carries a row and a column.  Record equality    *)
(* is JavaScript's === (object identity); SameSquare is the field-wise     *)
(* comparison the code writes out.                                         *)
(***************************************************************************)
EXTENDS Integers, Sequences, FiniteSets, TLC

VARIABLES edges, previous, pc, cursor, calls,
          initialVertex, endVertex, queue, stack, explored, result

vars == <<edges, previous, pc, cursor, calls,
          initialVertex, endVertex, queue, stack, explored, result>>

\* ---------------------------------------------------------------- bounds
\* Longest sequence of searches run on one Graph in SpecSeq.
MaxCalls == 2

\* ------------------------------------------------------------- constants
boardSize == 8

Squares == (0 .. boardSize - 1) \X (0 .. boardSize - 1)

\* null / undefined as a vertex reference
Null == [obj |-> -1, row |-> -1, column |-> -1]

GraphVertex(row, column) == [obj |-> 0, row |-> row, column |-> column]

\* A caller-made object carrying the coordinates (row, column).
OtherVertex(n, row, column) == [obj |-> n, row |-> row, column |-> column]

\* this.board after #createVertices: board[<<row, column>>] is the vertex.
board == [sq \in Squares |-> GraphVertex(sq[1], sq[2])]

Coord(vertex) == <<vertex.row, vertex.column>>

\* vertex.row === other.row && vertex.column === other.column
SameSquare(vertex, other) ==
    vertex.row = other.row /\ vertex.column = other.column

\* --------------------------------------------------------- construction
edgeExistsAlwaysFalse(vertex1, vertex2, e) == FALSE

edgeExists(vertex1, vertex2, e) ==
    \E i \in 1 .. Len(e[Coord(vertex2)]) :
        /\ e[Coord(vertex2)][i].row = vertex1.row
        /\ e[Coord(vertex2)][i].column = vertex1.column

createEdge(vertex1, vertex2, e) ==
    LET e1 == [e EXCEPT ![Coord(vertex1)] = Append(@, vertex2)]
    IN  [e1 EXCEPT ![Coord(vertex2)] = Append(@, vertex1)]

movePatterns(vertex) ==
    << <<vertex.row - 2, vertex.column + 1>>,
       <<vertex.row - 1, vertex.column + 2>>,
       <<vertex.row + 1, vertex.column + 2>>,
       <<vertex.row + 2, vertex.column + 1>>,
       <<vertex.row + 2, vertex.column - 1>>,
       <<vertex.row + 1, vertex.column - 2>>,
       <<vertex.row - 1, vertex.column - 2>>,
       <<vertex.row - 2, vertex.column - 1>> >>

inBounds(p) ==
    p[1] >= 0 /\ p[1] < boardSize /\ p[2] >= 0 /\ p[2] < boardSize

findAdjacents(vertex) ==
    LET possibleMoves == SelectSeq(movePatterns(vertex), inBounds)
    IN  [i \in 1 .. Len(possibleMoves) |-> board[possibleMoves[i]]]

RECURSIVE connectEach(_, _, _, _)
connectEach(vertex, adjacents, i, e) ==
    IF i > Len(adjacents) THEN e
    ELSE IF ~edgeExists(vertex, adjacents[i], e)
         THEN connectEach(vertex, adjacents, i + 1,
                          createEdge(vertex, adjacents[i], e))
         ELSE connectEach(vertex, adjacents, i + 1, e)

connectAdjacents(vertex, e) ==
    connectEach(vertex, findAdjacents(vertex), 1, e)

\* ---------------------------------------------------------------- search
isVertexInArrayNever(vertex, array) == FALSE

isVertexInArrayAlways(vertex, array) == TRUE

isVertexInArray(vertex, array) ==
    \E i \in 1 .. Len(array) :
        vertex.row = array[i].row /\ vertex.column = array[i].column

\* vertex.previous: a board vertex reads the shared field, a caller-made
\* object has none.
previousOf(vertex, prev) ==
    IF vertex.obj = 0 THEN prev[Coord(vertex)] ELSE Null

Reverse(s) == [i \in 1 .. Len(s) |-> s[Len(s) + 1 - i]]

\* What a call hands back.
NoResult  == [kind |-> "none", path |-> <<>>]
NullResult == [kind |-> "null", path |-> <<>>]
TypeError == [kind |-> "TypeError", path |-> <<>>]
NoReturn  == [kind |-> "noreturn", path |-> <<>>]
PathResult(p) == [kind |-> "path", path |-> p]

\* The while loop of #reconstructPath.  Reading .row of null throws; a walk
\* longer than the number of vertices has entered a cycle and never ends.
RECURSIVE walkBack(_, _, _, _, _)
walkBack(vertex, initial, prev, path, fuel) ==
    IF vertex = initial
    THEN PathResult(Reverse(Append(path, Coord(initial))))
    ELSE IF vertex = Null THEN TypeError
    ELSE IF fuel = 0 THEN NoReturn
    ELSE walkBack(previousOf(vertex, prev), initial, prev,
                  Append(path, Coord(vertex)), fuel - 1)

reconstructPathNoReverse(vertex, initial, prev) ==
    LET r == walkBack(vertex, initial, prev, <<>>, boardSize * boardSize + 1)
    IN  IF r.kind = "path" THEN PathResult(Reverse(r.path)) ELSE r

reconstructPathNoStart(vertex, initial, prev) ==
    LET r == walkBack(vertex, initial, prev, <<>>, boardSize * boardSize + 1)
    IN  IF r.kind = "path" THEN PathResult(Tail(r.path)) ELSE r

reconstructPathDoWhile(vertex, initial, prev) ==
    IF vertex = Null THEN TypeError
    ELSE walkBack(previousOf(vertex, prev), initial, prev,
                  <<Coord(vertex)>>, boardSize * boardSize + 1)

reconstructPath(vertex, initial, prev) ==
    walkBack(vertex, initial, prev, <<>>, boardSize * boardSize + 1)

\* adjacent.previous = vertex
setPreviousIfUnset(adjacent, vertex, prev) ==
    IF prev[Coord(adjacent)] = Null
    THEN [prev EXCEPT ![Coord(adjacent)] = vertex]
    ELSE prev

setPreviousBoardVertex(adjacent, vertex, prev) ==
    [prev EXCEPT ![Coord(adjacent)] =
        IF inBounds(Coord(vertex)) THEN board[Coord(vertex)] ELSE vertex]

setPrevious(adjacent, vertex, prev) ==
    [prev EXCEPT ![Coord(adjacent)] = vertex]

\* The adjacents.forEach of both searches: frontier is the queue or stack.
RECURSIVE visitAdjacents(_, _, _, _, _, _)
visitAdjacents(vertex, adjacents, i, frontier, expl, prev) ==
    IF i > Len(adjacents) THEN [frontier |-> frontier, previous |-> prev]
    ELSE IF /\ ~isVertexInArray(adjacents[i], frontier)
            /\ ~isVertexInArray(adjacents[i], expl)
         THEN visitAdjacents(vertex, adjacents, i + 1,
                             Append(frontier, adjacents[i]), expl,
                             setPrevious(adjacents[i], vertex, prev))
         ELSE visitAdjacents(vertex, adjacents, i + 1, frontier, expl, prev)

\* queue.shift(): the removed vertex and the remaining queue
queueShiftAsPop(q) == [vertex |-> q[Len(q)], rest |-> SubSeq(q, 1, Len(q) - 1)]

queueShift(q) == [vertex |-> Head(q), rest |-> Tail(q)]

\* stack.pop()
stackPop(s) == [vertex |-> s[Len(s)], rest |-> SubSeq(s, 1, Len(s) - 1)]

\* One pass of a search's while loop over a search state
\* [frontier, explored, previous, result, done].
loopBody(s, removed, initial, end) ==
    LET vertex == removed.vertex
        expl == Append(s.explored, vertex)
    IN  IF SameSquare(vertex, end)
        THEN [frontier |-> removed.rest, explored |-> expl,
              previous |-> s.previous,
              result |-> reconstructPath(vertex, initial, s.previous),
              done |-> TRUE]
        ELSE LET v == visitAdjacents(vertex, findAdjacents(vertex), 1,
                                     removed.rest, expl, s.previous)
             IN  [frontier |-> v.frontier, explored |-> expl,
                  previous |-> v.previous, result |-> NoResult,
                  done |-> FALSE]

exhausted(s) == [s EXCEPT !.result = NullResult, !.done = TRUE]

bfsIteration(s, initial, end) ==
    IF Len(s.frontier) > 0
    THEN loopBody(s, queueShift(s.frontier), initial, end)
    ELSE exhausted(s)

dfsIteration(s, initial, end) ==
    IF Len(s.frontier) > 0
    THEN loopBody(s, stackPop(s.frontier), initial, end)
    ELSE exhausted(s)

startState(initial, prev) ==
    [frontier |-> <<initial>>, explored |-> <<>>, previous |-> prev,
     result |-> NoResult, done |-> FALSE]

\* The whole of a call, from its first statement to its return.
RECURSIVE bfsRun(_, _, _)
bfsRun(s, initial, end) ==
    IF s.done THEN s ELSE bfsRun(bfsIteration(s, initial, end), initial, end)

RECURSIVE dfsRun(_, _, _)
dfsRun(s, initial, end) ==
    IF s.done THEN s ELSE dfsRun(dfsIteration(s, initial, end), initial, end)

knightMovesBFS(initial, end, prev) ==
    bfsRun(startState(initial, prev), initial, end).result

knightMovesDFS(initial, end, prev) ==
    dfsRun(startState(initial, prev), initial, end).result

\* ------------------------------------------------------------ the machine
noPrevious == [sq \in Squares |-> Null]

Init ==
    /\ edges = [sq \in Squares |-> <<>>]
    /\ previous = noPrevious
    /\ pc = "connect"
    /\ cursor = 0
    /\ calls = 0
    /\ initialVertex = Null
    /\ endVertex = Null
    /\ queue = <<>>
    /\ stack = <<>>
    /\ explored = <<>>
    /\ result = NoResult

\* One pass of the nested loops of #connectAllAdjacents; the constructor
\* returns after the last one.
connectAllAdjacents ==
    /\ pc = "connect"
    /\ LET row == cursor \div boardSize
           column == cursor % boardSize
       IN  edges' = connectAdjacents(board[<<row, column>>], edges)
    /\ cursor' = cursor + 1
    /\ pc' = IF cursor + 1 = boardSize * boardSize THEN "idle" ELSE "connect"
    /\ UNCHANGED <<previous, calls, initialVertex, endVertex,
                   queue, stack, explored, result>>

\* graph.knightMovesBFS(initial, end): the statements before the loop
BFSCall(initial, end) ==
    /\ pc \in {"idle", "bfsReturned", "dfsReturned"}
    /\ initialVertex' = initial
    /\ endVertex' = end
    /\ queue' = <<initial>>
    /\ stack' = <<>>
    /\ explored' = <<>>
    /\ result' = NoResult
    /\ calls' = calls + 1
    /\ pc' = "bfs"
    /\ UNCHANGED <<edges, previous, cursor>>

DFSCall(initial, end) ==
    /\ pc \in {"idle", "bfsReturned", "dfsReturned"}
    /\ initialVertex' = initial
    /\ endVertex' = end
    /\ stack' = <<initial>>
    /\ queue' = <<>>
    /\ explored' = <<>>
    /\ result' = NoResult
    /\ calls' = calls + 1
    /\ pc' = "dfs"
    /\ UNCHANGED <<edges, previous, cursor>>

BFSLoop ==
    /\ pc = "bfs"
    /\ LET s == bfsIteration([frontier |-> queue, explored |-> explored,
                              previous |-> previous, result |-> result,
                              done |-> FALSE], initialVertex, endVertex)
       IN  /\ queue' = s.frontier
           /\ explored' = s.explored
           /\ previous' = s.previous
           /\ result' = s.result
           /\ pc' = IF s.done THEN "bfsReturned" ELSE "bfs"
    /\ UNCHANGED <<edges, cursor, calls, initialVertex, endVertex, stack>>

DFSLoop ==
    /\ pc = "dfs"
    /\ LET s == dfsIteration([frontier |-> stack, explored |-> explored,
                              previous |-> previous, result |-> result,
                              done |-> FALSE], initialVertex, endVertex)
       IN  /\ stack' = s.frontier
           /\ explored' = s.explored
           /\ previous' = s.previous
           /\ result' = s.result
           /\ pc' = IF s.done THEN "dfsReturned" ELSE "dfs"
    /\ UNCHANGED <<edges, cursor, calls, initialVertex, endVertex, queue>>

\* --- Spec: one search, any two board squares, on a newly built Graph
BoardVertices == {board[sq] : sq \in Squares}

FirstBFS ==
    /\ calls = 0
    /\ \E initial \in BoardVertices, end \in BoardVertices :
           BFSCall(initial, end)

FirstDFS ==
    /\ calls = 0
    /\ \E initial \in BoardVertices, end \in BoardVertices :
           DFSCall(initial, end)

Next == connectAllAdjacents \/ FirstBFS \/ FirstDFS \/ BFSLoop \/ DFSLoop

Spec == Init /\ [][Next]_vars

\* --- SpecDemo: the driver of index.js, its ten calls in order
demoCalls ==
    << <<"BFS", <<0, 0>>, <<1, 2>>>>,
       <<"BFS", <<0, 0>>, <<3, 3>>>>,
       <<"BFS", <<3, 3>>, <<0, 0>>>>,
       <<"BFS", <<0, 0>>, <<7, 7>>>>,
       <<"DFS", <<0, 0>>, <<1, 2>>>>,
       <<"DFS", <<0, 0>>, <<3, 3>>>>,
       <<"DFS", <<3, 3>>, <<0, 0>>>>,
       <<"DFS", <<0, 0>>, <<7, 7>>>>,
       <<"BFS", <<0, 0>>, <<0, 1>>>>,
       <<"DFS", <<0, 0>>, <<0, 1>>>> >>

DemoBFS ==
    /\ calls < Len(demoCalls)
    /\ demoCalls[calls + 1][1] = "BFS"
    /\ BFSCall(board[demoCalls[calls + 1][2]], board[demoCalls[calls + 1][3]])

DemoDFS ==
    /\ calls < Len(demoCalls)
    /\ demoCalls[calls + 1][1] = "DFS"
    /\ DFSCall(board[demoCalls[calls + 1][2]], board[demoCalls[calls + 1][3]])

NextDemo == connectAllAdjacents \/ DemoBFS \/ DemoDFS \/ BFSLoop \/ DFSLoop

SpecDemo == Init /\ [][NextDemo]_vars

\* --- SpecSeq: up to MaxCalls searches, one after another, on one Graph.
\* The start is the board's vertex or a new object with the same
\* coordinates; the goal is a board vertex.
ProbeSquares == {<<0, 0>>, <<3, 3>>, <<7, 6>>}

SeqStarts(n) ==
    {board[sq] : sq \in ProbeSquares}
        \cup {OtherVertex(n, sq[1], sq[2]) : sq \in ProbeSquares}

SeqGoals == {board[sq] : sq \in ProbeSquares}

SeqBFS ==
    /\ calls < MaxCalls
    /\ \E initial \in SeqStarts(calls + 1), end \in SeqGoals :
           BFSCall(initial, end)

SeqDFS ==
    /\ calls < MaxCalls
    /\ \E initial \in SeqStarts(calls + 1), end \in SeqGoals :
           DFSCall(initial, end)

\* search(X, X) for any board square X
SameSquareBFS ==
    /\ calls < MaxCalls
    /\ \E X \in BoardVertices : BFSCall(X, X)

SameSquareDFS ==
    /\ calls < MaxCalls
    /\ \E X \in BoardVertices : DFSCall(X, X)

NextSeq ==
    \/ connectAllAdjacents
    \/ SeqBFS \/ SeqDFS \/ SameSquareBFS \/ SameSquareDFS
    \/ BFSLoop \/ DFSLoop

SpecSeq == Init /\ [][NextSeq]_vars

\* --- SpecOut: one search whose start or goal lies off the board
OutCoords == {<<-1, 0>>, <<0, 8>>, <<8, 0>>, <<8, 8>>, <<9, 1>>, <<3, -2>>, <<20, 20>>}

OutStarts ==
    {OtherVertex(1, c[1], c[2]) : c \in OutCoords \cup ProbeSquares}
        \cup {board[sq] : sq \in ProbeSquares}

OutGoals ==
    {OtherVertex(2, c[1], c[2]) : c \in OutCoords}
        \cup {board[sq] : sq \in ProbeSquares}

OffBoard(vertex) == ~inBounds(Coord(vertex))

OutBFS ==
    /\ calls = 0
    /\ \E initial \in OutStarts, end \in OutGoals :
           /\ OffBoard(initial) \/ OffBoard(end)
           /\ BFSCall(initial, end)

OutDFS ==
    /\ calls = 0
    /\ \E initial \in OutStarts, end \in OutGoals :
           /\ OffBoard(initial) \/ OffBoard(end)
           /\ DFSCall(initial, end)

NextOut == connectAllAdjacents \/ OutBFS \/ OutDFS \/ BFSLoop \/ DFSLoop

SpecOut == Init /\ [][NextOut]_vars

\* ------------------------------------------------------------ properties
Abs(n) == IF n < 0 THEN -n ELSE n

\* The knight-move relation on coordinate pairs, stated from the geometry.
LegalKnightMove(a, b) ==
    {Abs(a[1] - b[1]), Abs(a[2] - b[2])} = {1, 2}

knightNeighbours ==
    [sq \in Squares |-> {t \in Squares : LegalKnightMove(sq, t)}]

KnightNeighbours(sq) == knightNeighbours[sq]

Members(array) == {array[i] : i \in 1 .. Len(array)}

CoordsOf(array) == {Coord(array[i]) : i \in 1 .. Len(array)}

\* Reference distance: breadth-first by whole level sets.
RECURSIVE levelDistance(_, _, _, _)
levelDistance(seen, level, goal, d) ==
    IF goal \in level THEN d
    ELSE IF level = {} THEN -1
    ELSE LET next == UNION {KnightNeighbours(sq) : sq \in level} \ seen
         IN  levelDistance(seen \cup next, next, goal, d + 1)

knightDistance ==
    [s \in Squares |-> [g \in Squares |-> levelDistance({s}, {s}, g, 0)]]

Returned == pc \in {"bfsReturned", "dfsReturned"}

Moves == Len(result.path) - 1

\* C1: a path returned by knightMovesBFS for two board squares has as many
\* moves as the reference knight distance from start to goal, so no shorter
\* sequence of legal knight moves joins them.
C1_BFSShortest ==
    (pc = "bfsReturned" /\ result.kind = "path"
        /\ initialVertex \in BoardVertices /\ endVertex \in BoardVertices)
    => Moves = knightDistance[Coord(initialVertex)][Coord(endVertex)]

C1_Witness ==
    /\ pc = "bfsReturned"
    /\ result.kind = "path"
    /\ Moves = 6
    /\ knightDistance[Coord(initialVertex)][Coord(endVertex)] = 6

\* C2: a path returned by either search begins with the start's
\* [row, column], ends with the goal's, and each consecutive pair is a legal
\* knight move between squares of the board.
C2_PathValid ==
    (Returned /\ result.kind = "path"
        /\ initialVertex \in BoardVertices /\ endVertex \in BoardVertices)
    => /\ Len(result.path) >= 1
       /\ result.path[1] = Coord(initialVertex)
       /\ result.path[Len(result.path)] = Coord(endVertex)
       /\ \A i \in 1 .. Len(result.path) : result.path[i] \in Squares
       /\ \A i \in 1 .. Len(result.path) - 1 :
              LegalKnightMove(result.path[i], result.path[i + 1])

C2_Witness ==
    /\ pc = "dfsReturned"
    /\ result.kind = "path"
    /\ Moves > knightDistance[Coord(initialVertex)][Coord(endVertex)]
    /\ Moves >= 10

\* C3: for board squares both searches return a path, never null, and the
\* frontier is never found empty by the loop test.
C3_NeverNull ==
    (initialVertex \in BoardVertices /\ endVertex \in BoardVertices)
    => /\ Returned => result.kind = "path"
       /\ pc = "bfs" => Len(queue) > 0
       /\ pc = "dfs" => Len(stack) > 0

C3_Witness ==
    /\ pc = "dfsReturned"
    /\ result.kind = "path"
    /\ Len(explored) = boardSize * boardSize
    /\ Len(stack) = 0

\* C6 as stated: knightMovesBFS from (0,0) to (3,3) returns a path of 4
\* moves and 4 is the minimum knight distance between the two squares.
C6_AsStated ==
    (pc = "bfsReturned" /\ initialVertex = board[<<0, 0>>]
        /\ endVertex = board[<<3, 3>>])
    => /\ result.kind = "path"
       /\ Moves = 4
       /\ knightDistance[<<0, 0>>][<<3, 3>>] = 4

\* C6 amended: knightMovesBFS from (0,0) to (3,3) returns a path of 2
\* moves and 2 is the minimum knight distance between the two squares.
C6_TwoMoves ==
    (pc = "bfsReturned" /\ initialVertex = board[<<0, 0>>]
        /\ endVertex = board[<<3, 3>>])
    => /\ result.kind = "path"
       /\ Moves = 2
       /\ knightDistance[<<0, 0>>][<<3, 3>>] = 2

C6_Witness ==
    /\ pc = "bfsReturned"
    /\ initialVertex = board[<<0, 0>>]
    /\ endVertex = board[<<3, 3>>]
    /\ result.kind = "path"

Frontier == IF pc = "bfs" THEN queue ELSE stack

\* C7: every pass of a search's loop removes exactly one square from the
\* frontier or returns, so a search ends; it removes at most boardSize^2
\* squares, none of them twice, and no square is in the frontier and in the
\* explored list at once.
C7_BoundedRemovals ==
    [][ (pc \in {"bfs", "dfs"} /\ initialVertex \in BoardVertices
            /\ endVertex \in BoardVertices)
        => /\ Returned' \/ Len(explored') = Len(explored) + 1
           /\ Len(explored') <= boardSize * boardSize
           /\ Cardinality(CoordsOf(explored')) = Len(explored')
           /\ CoordsOf(Frontier') \cap CoordsOf(explored') = {}
      ]_vars

C7_Witness ==
    /\ pc = "bfsReturned"
    /\ Len(explored) = boardSize * boardSize
    /\ result.kind = "path"

\* C8: once the constructor has finished, every square's edge list holds
\* each in-bounds knight neighbour exactly once and nothing else; the stored
\* relation is symmetric, without self-loops or duplicates, every square has
\* 2 to 8 edges and each corner exactly 2.
C8_EdgesAreKnightMoves ==
    pc # "connect"
    => /\ \A sq \in Squares :
           /\ Members(edges[sq]) = {board[t] : t \in KnightNeighbours(sq)}
           /\ Len(edges[sq]) = Cardinality(Members(edges[sq]))
           /\ board[sq] \notin Members(edges[sq])
           /\ Len(edges[sq]) >= 2 /\ Len(edges[sq]) <= 8
           /\ \A i \in 1 .. Len(edges[sq]) :
                  board[sq] \in Members(edges[Coord(edges[sq][i])])
       /\ \A sq \in {0, boardSize - 1} \X {0, boardSize - 1} :
              Len(edges[sq]) = 2

C8_Witness ==
    /\ pc = "idle"
    /\ Len(edges[<<0, 0>>]) = 2
    /\ Len(edges[<<3, 3>>]) = 8

\* C4: a search given a start or goal off the board fails with an explicit
\* OutOfBounds condition; it returns no path, no null, and does not crash.
C4_OutOfBoundsReported ==
    (Returned /\ (OffBoard(initialVertex) \/ OffBoard(endVertex)))
    => result.kind = "OutOfBounds"

\* C5: search(X, X) returns the one-element path [[X.row, X.column]] for
\* every board square X and either search, whatever ran on the Graph before.
C5_SameSquare ==
    (Returned /\ initialVertex \in BoardVertices /\ endVertex = initialVertex)
    => result = PathResult(<<Coord(initialVertex)>>)

C5_Witness ==
    /\ Returned
    /\ calls >= 2
    /\ initialVertex \in BoardVertices
    /\ endVertex = initialVertex
    /\ previous[Coord(initialVertex)] # Null
    /\ result = PathResult(<<Coord(initialVertex)>>)

\* The same call on a newly constructed Graph.
OnNewGraph ==
    IF pc = "bfsReturned"
    THEN knightMovesBFS(initialVertex, endVertex, noPrevious)
    ELSE knightMovesDFS(initialVertex, endVertex, noPrevious)

\* C9: after any earlier searches on the same Graph, a search between board
\* squares returns the coordinate sequence the same call returns on a newly
\* constructed Graph, and every square of the path after the first was put
\* in the frontier (so had its predecessor written) by this search.
C9_HistoryIndependent ==
    (Returned /\ initialVertex \in BoardVertices /\ endVertex \in BoardVertices)
    => /\ result = OnNewGraph
       /\ \A i \in 2 .. Len(result.path) :
              /\ result.path[i] \in CoordsOf(explored)
              /\ result.path[i] # Coord(initialVertex)

\* A predecessor left by an earlier search sits on a square of the returned
\* path, and it is not the one this search wrote.
C9_Witness ==
    /\ Returned
    /\ calls >= 2
    /\ initialVertex \in BoardVertices
    /\ result.kind = "path"
    /\ Moves >= 2
    /\ previous[Coord(initialVertex)] # Null
    /\ \E sq \in Squares :
           previous[sq] # Null /\ sq \notin (CoordsOf(explored) \cup CoordsOf(Frontier))

\* C10: a search whose start is a distinct object with the coordinates of
\* a board square returns what the same call returns when handed the
\* board's own vertex, on the Graph as it is at the moment of the call.
C10_StartByValue ==
    [][ /\ (pc' = "bfs" /\ pc # "bfs" /\ initialVertex'.obj > 0)
            => knightMovesBFS(initialVertex', endVertex', previous)
                 = knightMovesBFS(board[Coord(initialVertex')], endVertex', previous)
        /\ (pc' = "dfs" /\ pc # "dfs" /\ initialVertex'.obj > 0)
            => knightMovesDFS(initialVertex', endVertex', previous)
                 = knightMovesDFS(board[Coord(initialVertex')], endVertex', previous)
      ]_vars

C10_Witness ==
    /\ Returned
    /\ calls >= 2
    /\ initialVertex.obj > 0
    /\ result.kind = "path"
    /\ Moves >= 2
    /\ previous[Coord(initialVertex)] # Null

====
